---- MODULE Spec2Model ----
(***************************************************************************)
(* Model of platform/linux-generic/odp_system_info.c: the one-shot         *)
(* discovery routine odp_system_info_init() and the read-only accessors    *)
(* over odp_global_data.system_info.                                       *)
(*                                                                         *)
(* Text is modelled as a sequence of atoms.  An atom is a string: either   *)
(* a single character (" ", "\t", "\n", a digit, a letter) or a chunk of   *)
(* characters that holds no blank, tab, newline or digit and that the code *)
(* only ever compares or copies as a whole ("hugetlbfs", "Hugepagesize:"). *)
(* The concatenation of the atoms is the C string.                         *)
(***************************************************************************)
EXTENDS Integers, Sequences, FiniteSets, TLC

VARIABLES
    cfg,              \* the build: HAVE_THUNDERX, the sysfs architectures, ODP_CACHE_LINE_SIZE
    env,              \* what the OS and the pseudo-files answered, recorded as each step reads it
    odp_global_data,  \* num_cpus_installed and the system_info record
    pc,               \* position of the bootstrap thread inside odp_system_info_init()
    step,             \* number of the last step of init that was entered (0: none yet)
    ret,              \* value returned by odp_system_info_init() (meaningful once pc = "done")
    open_files,       \* FILE handles that are open
    last              \* the most recent accessor call: who called what, and what came back

vars == <<cfg, env, odp_global_data, pc, step, ret, open_files, last>>

----------------------------------------------------------------------------
(* Bounds of the model *)

\* CPU ids the readers pass run from -IdMargin to MAX_CPU_NUMBER - 1 + IdMargin
IdMargin == 1
\* size of the cpu_hz_max / model_str arrays (odp_internal.h; scaled down)
MAX_CPU_NUMBER == 3
\* number of concurrent reader threads
NumReaders == 2
\* mount tables of SpecMounts: at most MaxLines lines of at most MaxFields fields
MaxLines == 2
MaxFields == 4

(* Program constants *)
ODP_PAGE_SIZE == 4096
DefaultCacheLine == 64
HugePageWidth == 8

hugefs == <<"hugetlbfs">>

----------------------------------------------------------------------------
(* Text helpers: what strtok, fgets and sscanf do on atom sequences *)

Blank == {" ", "\t", "\n"}
HexChars == <<"0", "1", "2", "3", "4", "5", "6", "7", "8", "9",
              "a", "b", "c", "d", "e", "f">>

DigitVal(c) == (CHOOSE i \in 1..16 : HexChars[i] = c) - 1
IsDigit(c, base) == \E i \in 1..base : HexChars[i] = c

\* isspace() skipping of scanf: first position at or after i that holds no blank
RECURSIVE SkipBlank(_, _)
SkipBlank(s, i) ==
    IF i <= Len(s) /\ s[i] \in Blank THEN SkipBlank(s, i + 1) ELSE i

\* strtol-style digit run from position i: at most width digits in the base
RECURSIVE ScanDigits(_, _, _, _, _, _)
ScanDigits(s, i, base, width, acc, n) ==
    IF i <= Len(s) /\ n < width /\ IsDigit(s[i], base)
    THEN ScanDigits(s, i + 1, base, width, acc * base + DigitVal(s[i]), n + 1)
    ELSE [val |-> acc, count |-> n]

\* sscanf(str, "%i", &size): blanks, an optional sign, 0x.. hexadecimal,
\* 0.. octal, otherwise decimal.  n is sscanf's return value.
sscanf_i(s) ==
    LET i    == SkipBlank(s, 1)
        sign == i <= Len(s) /\ s[i] \in {"-", "+"}
        neg  == i <= Len(s) /\ s[i] = "-"
        j    == IF sign THEN i + 1 ELSE i
        hex  == /\ j + 2 <= Len(s)
                /\ s[j] = "0"
                /\ s[j + 1] = "x"
                /\ IsDigit(s[j + 2], 16)
        oct  == j <= Len(s) /\ s[j] = "0"
        d    == IF hex THEN ScanDigits(s, j + 2, 16, Len(s), 0, 0)
                ELSE IF oct THEN ScanDigits(s, j, 8, Len(s), 0, 0)
                ELSE ScanDigits(s, j, 10, Len(s), 0, 0)
    IN  IF d.count = 0 THEN [n |-> 0, val |-> 0]
        ELSE [n |-> 1, val |-> IF neg THEN 0 - d.val ELSE d.val]

\* sscanf(str, "Hugepagesize:   %8lu kB", &sz): the literal must start the
\* line, blanks are optional, at most eight digits are converted, and the
\* count is 1 as soon as the number is converted (the " kB" tail cannot
\* lower it).  Lines of the model carry no sign before the number.
sscanf_hugepagesize(s) ==
    IF Len(s) >= 1 /\ s[1] = "Hugepagesize:"
    THEN LET d == ScanDigits(s, SkipBlank(s, 2), 10, HugePageWidth, 0, 0)
         IN  IF d.count = 0 THEN [n |-> 0, val |-> 0] ELSE [n |-> 1, val |-> d.val]
    ELSE [n |-> 0, val |-> 0]

\* strtok(line, " "): the tokens of a line, split at the atoms in delims,
\* empty tokens dropped
RECURSIVE Split(_, _, _, _)
Split(s, i, cur, delims) ==
    IF i > Len(s) THEN (IF cur = <<>> THEN <<>> ELSE <<cur>>)
    ELSE IF s[i] \in delims
         THEN (IF cur = <<>> THEN <<>> ELSE <<cur>>) \o Split(s, i + 1, <<>>, delims)
         ELSE Split(s, i + 1, Append(cur, s[i]), delims)

strtok_cols(line) == Split(line, 1, <<>>, {" "})

----------------------------------------------------------------------------
(* The record and the files *)

CpuIndex == 0..(MAX_CPU_NUMBER - 1)

\* memset(&odp_global_data.system_info, 0, sizeof(system_info_t))
ZeroInfo ==
    [cpu_count              |-> 0,
     cache_line_size        |-> 0,
     page_size              |-> 0,
     default_huge_page_size |-> 0,
     huge_page_dir          |-> <<>>,
     cpu_hz_max             |-> [i \in CpuIndex |-> 0],
     model_str              |-> [i \in CpuIndex |-> <<>>]]

\* a file that fopen() cannot open, and a file with the given lines
NoFile == [present |-> FALSE, lines |-> <<>>]
File(ls) == [present |-> TRUE, lines |-> ls]

\* nothing read yet
NoEnv ==
    [sc_pagesz  |-> 0,
     mounts     |-> NoFile,
     cpuinfo    |-> [present |-> FALSE, cores |-> 0],
     cache_file |-> NoFile,
     meminfo    |-> NoFile]

----------------------------------------------------------------------------
(* The probes, as the functions of the source compute them *)

\* sysconf_cpu_count(): the count cached by bootstrap
sysconf_cpu_count(gd) == gd.num_cpus_installed

\* systemcpu_cache_line_size() changed to fall back to the default when the
\* file cannot be opened
systemcpu_cache_line_size_fallback(c, f) ==
    IF c.sysfs
    THEN IF ~f.present
         THEN (IF c.thunderx THEN c.ODP_CACHE_LINE_SIZE ELSE DefaultCacheLine)
         ELSE IF f.lines = <<>> THEN 0
         ELSE LET r == sscanf_i(f.lines[1])
              IN  IF r.n # 1 THEN 0 ELSE r.val
    ELSE IF c.thunderx THEN c.ODP_CACHE_LINE_SIZE ELSE DefaultCacheLine

\* systemcpu_cache_line_size(): both #if branches.  On the sysfs
\* architectures the file is opened, its first line parsed, and the file
\* closed; elsewhere a constant is returned.
systemcpu_cache_line_size(c, f) ==
    IF c.sysfs
    THEN IF ~f.present THEN 0
         ELSE IF f.lines = <<>> THEN 0
         ELSE LET r == sscanf_i(f.lines[1])
              IN  IF r.n # 1 THEN 0 ELSE r.val
    ELSE IF c.thunderx THEN c.ODP_CACHE_LINE_SIZE ELSE DefaultCacheLine

ncols == 3

\* the while (fgets(...)) loop of huge_page_dir() from line k on.  leak
\* tells whether the function returns with the FILE still open.
RECURSIVE mounts_loop(_, _, _)
mounts_loop(si, lines, k) ==
    IF k > Len(lines)
    THEN [ret |-> -1, si |-> si, leak |-> FALSE]
    ELSE LET cols == strtok_cols(lines[k])
             i    == IF Len(cols) < ncols THEN Len(cols) ELSE ncols
         IN  IF i # ncols
             THEN [ret |-> -1, si |-> si, leak |-> TRUE]
             ELSE IF cols[3] = hugefs
                  THEN [ret |-> 0,
                        si |-> [si EXCEPT !.huge_page_dir = cols[2]],
                        leak |-> TRUE]
                  ELSE mounts_loop(si, lines, k + 1)

\* huge_page_dir(sysinfo)
huge_page_dir(si, f) ==
    IF ~f.present
    THEN [ret |-> -1, si |-> si, leak |-> FALSE]
    ELSE mounts_loop(si, f.lines, 1)

\* the while (fgets(...)) loop of default_huge_page_size() from line k on
RECURSIVE meminfo_loop(_, _)
meminfo_loop(lines, k) ==
    IF k > Len(lines) THEN 0
    ELSE LET r == sscanf_hugepagesize(lines[k])
         IN  IF r.n = 1 THEN r.val * 1024 ELSE meminfo_loop(lines, k + 1)

\* default_huge_page_size().  fopen()'s result is not checked: with no file,
\* fgets(str, size, NULL) is undefined behaviour (ub).
default_huge_page_size(f) ==
    IF ~f.present
    THEN [ub |-> TRUE, val |-> 0]
    ELSE [ub |-> FALSE, val |-> meminfo_loop(f.lines, 1)]

\* cpuinfo_parser(file, sysinfo): the per-architecture collaborator.  It
\* fills cpu_hz_max and model_str of the cores it finds and ignores cores
\* at or beyond MAX_CPU_NUMBER.
cpuinfo_parser(si, cores) ==
    [si EXCEPT
        !.cpu_hz_max = [i \in CpuIndex |-> IF i < cores THEN 1000 * (i + 1) ELSE 0],
        !.model_str  = [i \in CpuIndex |-> IF i < cores THEN <<"cpu-model">> ELSE <<>>]]

----------------------------------------------------------------------------
(* The steps of odp_system_info_init(): each gives the return code of the  *)
(* step (0 or -1) and the record after it                                  *)

\* step 1: #if HAVE_THUNDERX sysconf(_SC_PAGESIZE) #else ODP_PAGE_SIZE
init_page_size(c, si, sc_pagesz) ==
    IF c.thunderx
    THEN IF sc_pagesz < 0
         THEN [ret |-> -1, si |-> si]
         ELSE [ret |-> 0, si |-> [si EXCEPT !.page_size = sc_pagesz]]
    ELSE [ret |-> 0, si |-> [si EXCEPT !.page_size = ODP_PAGE_SIZE]]

\* step 2: if (huge_page_dir(...)) return -1
init_huge_page_dir(si, f) ==
    LET r == huge_page_dir(si, f)
    IN  [ret |-> IF r.ret # 0 THEN -1 ELSE 0, si |-> r.si, leak |-> r.leak]

\* step 3: fopen("/proc/cpuinfo"), cpuinfo_parser, fclose
init_cpuinfo(si, f) ==
    IF ~f.present
    THEN [ret |-> -1, si |-> si]
    ELSE [ret |-> 0, si |-> cpuinfo_parser(si, f.cores)]

\* systemcpu() changed to probe the cache line size before it tests the count
systemcpu_count_probing_first(gd, si) ==
    LET r == sysconf_cpu_count(gd)
        probed == [si EXCEPT !.cache_line_size = DefaultCacheLine]
    IN  IF r = 0
        THEN [ret |-> -1, si |-> probed]
        ELSE [ret |-> 0, si |-> [probed EXCEPT !.cpu_count = r]]

\* step 4: the first part of systemcpu()
systemcpu_count(gd, si) ==
    LET r == sysconf_cpu_count(gd)
    IN  IF r = 0
        THEN [ret |-> -1, si |-> si]
        ELSE [ret |-> 0, si |-> [si EXCEPT !.cpu_count = r]]

\* systemcpu() without the comparison with ODP_CACHE_LINE_SIZE
systemcpu_cache_unchecked(c, si, f) ==
    LET r == systemcpu_cache_line_size(c, f)
    IN  IF r = 0
        THEN [ret |-> -1, si |-> si]
        ELSE [ret |-> 0, si |-> [si EXCEPT !.cache_line_size = r]]

\* step 5: the second part of systemcpu(): the value is stored, then
\* compared with ODP_CACHE_LINE_SIZE
systemcpu_cache(c, si, f) ==
    LET r == systemcpu_cache_line_size(c, f)
    IN  IF r = 0
        THEN [ret |-> -1, si |-> si]
        ELSE IF r # c.ODP_CACHE_LINE_SIZE
             THEN [ret |-> -1, si |-> [si EXCEPT !.cache_line_size = r]]
             ELSE [ret |-> 0, si |-> [si EXCEPT !.cache_line_size = r]]

\* step 6: the last part of systemcpu(), for a memory-information source
\* that could be opened
systemcpu_huge(si, f) ==
    [si EXCEPT !.default_huge_page_size = default_huge_page_size(f).val]

----------------------------------------------------------------------------
(* The accessors.  Each gives the set of results a call can have: one      *)
(* result, unless the call reads outside an array.  A result is the        *)
(* returned integer (ival) or string (sval, or null for a NULL pointer)    *)
(* and whether cpu_hz_max / model_str was indexed (read).                  *)

Res(ival, sval, null, read) ==
    [ival |-> ival, sval |-> sval, null |-> null, read |-> read]

\* arr[id] in C: the element, or whatever lies beside the array
array_read(arr, id, beside) == IF id \in DOMAIN arr THEN {arr[id]} ELSE beside

\* odp_cpu_hz_max_id() with the upper test off by one (id <= MAX_CPU_NUMBER)
odp_cpu_hz_max_id_inclusive(si, id) ==
    IF id >= 0 /\ id <= MAX_CPU_NUMBER
    THEN {Res(v, <<>>, FALSE, TRUE) : v \in array_read(si.cpu_hz_max, id, {0, 7})}
    ELSE {Res(0, <<>>, FALSE, FALSE)}

odp_cpu_hz_max_id(si, id) ==
    IF id >= 0 /\ id < MAX_CPU_NUMBER
    THEN {Res(v, <<>>, FALSE, TRUE) : v \in array_read(si.cpu_hz_max, id, {0, 7})}
    ELSE {Res(0, <<>>, FALSE, FALSE)}

odp_cpu_hz_max(si) == odp_cpu_hz_max_id(si, 0)

odp_sys_huge_page_size(si) == {Res(si.default_huge_page_size, <<>>, FALSE, FALSE)}

odp_sys_huge_page_dir(si) == {Res(0, si.huge_page_dir, FALSE, FALSE)}

odp_sys_page_size(si) == {Res(si.page_size, <<>>, FALSE, FALSE)}

odp_cpu_model_str_id(si, id) ==
    IF id >= 0 /\ id < MAX_CPU_NUMBER
    THEN {Res(0, v, FALSE, TRUE) : v \in array_read(si.model_str, id, {<<>>, <<"?">>})}
    ELSE {Res(0, <<>>, TRUE, FALSE)}

odp_cpu_model_str(si) == odp_cpu_model_str_id(si, 0)

odp_sys_cache_line_size(si) == {Res(si.cache_line_size, <<>>, FALSE, FALSE)}

odp_cpu_count(si) == {Res(si.cpu_count, <<>>, FALSE, FALSE)}

accessor_result(si, fn, arg) ==
    CASE fn = "odp_cpu_hz_max"          -> odp_cpu_hz_max(si)
      [] fn = "odp_cpu_hz_max_id"       -> odp_cpu_hz_max_id(si, arg)
      [] fn = "odp_sys_huge_page_size"  -> odp_sys_huge_page_size(si)
      [] fn = "odp_sys_huge_page_dir"   -> odp_sys_huge_page_dir(si)
      [] fn = "odp_sys_page_size"       -> odp_sys_page_size(si)
      [] fn = "odp_cpu_model_str"       -> odp_cpu_model_str(si)
      [] fn = "odp_cpu_model_str_id"    -> odp_cpu_model_str_id(si, arg)
      [] fn = "odp_sys_cache_line_size" -> odp_sys_cache_line_size(si)
      [] fn = "odp_cpu_count"           -> odp_cpu_count(si)

\* an odp_cpu_count() that hands the count out once and resets it
accessor_store_resetting(gd, fn) ==
    IF fn = "odp_cpu_count"
    THEN [gd EXCEPT !.system_info.cpu_count = 0]
    ELSE gd

\* what a call leaves in odp_global_data: no accessor assigns to it
accessor_store(gd, fn) == gd

CpuIds == (0 - IdMargin)..(MAX_CPU_NUMBER - 1 + IdMargin)

IdFns == {"odp_cpu_hz_max_id", "odp_cpu_model_str_id"}

\* odp_sys_huge_page_dir() exists under HAVE_THUNDERX only
PlainFns(c) ==
    {"odp_cpu_hz_max", "odp_sys_huge_page_size", "odp_sys_page_size",
     "odp_cpu_model_str", "odp_sys_cache_line_size", "odp_cpu_count"}
    \cup (IF c.thunderx THEN {"odp_sys_huge_page_dir"} ELSE {})

Calls(c) ==
    {[fn |-> f, arg |-> 0] : f \in PlainFns(c)}
    \cup {[fn |-> f, arg |-> i] : f \in IdFns, i \in CpuIds}

NoCall ==
    [tid |-> 0, fn |-> "none", arg |-> 0, ready |-> FALSE,
     ival |-> 0, sval |-> <<>>, null |-> FALSE, read |-> FALSE]

----------------------------------------------------------------------------
(* What the environment can answer *)

Builds == [thunderx : BOOLEAN, sysfs : BOOLEAN, ODP_CACHE_LINE_SIZE : {64, 128}]

SysPageSizes == {-1, 4096}

CpuCounts == {-1, 0, 1}

CpuInfoFiles ==
    {[present |-> FALSE, cores |-> 0]}
    \cup {[present |-> TRUE, cores |-> n] : n \in {1, MAX_CPU_NUMBER + 1}}

CacheFiles ==
    {NoFile,
     File(<<>>),
     File(<< <<"0", "\n">> >>),
     File(<< <<"6", "4", "\n">> >>),
     File(<< <<"1", "2", "8", "\n">> >>),
     File(<< <<"x", "\n">> >>),
     File(<< <<"0", "x", "4", "0", "\n">> >>),
     File(<< <<"-", "6", "4", "\n">> >>)}

MemTotalLine == <<"MemTotal:", " ", "8", " ", "kB", "\n">>
HugeLine == <<"Hugepagesize:", " ", " ", " ", "2", "0", "4", "8", " ", "kB", "\n">>

MeminfoFiles ==
    {NoFile,
     File(<<MemTotalLine>>),
     File(<<MemTotalLine, HugeLine>>),
     File(<< <<"Hugepagesize:", " ", "kB", "\n">> >>)}

ProcLine == <<"proc", " ", "/proc", " ", "proc", " ", "rw", "\n">>
HugeMount == <<"none", " ", "/dev/hugepages", " ", "hugetlbfs", " ", "rw", " ", "0", " ", "0", "\n">>

MountTables ==
    {NoFile,
     File(<<>>),
     File(<<ProcLine>>),
     File(<<HugeMount>>),
     File(<<ProcLine, HugeMount>>),
     File(<< <<"\n">>, HugeMount>>),
     File(<< <<"none", " ", "/dev/hugepages", " ", "hugetlbfs", "\n">> >>)}

----------------------------------------------------------------------------
(* The state machine *)

Init ==
    /\ cfg \in Builds
    /\ env = NoEnv
    /\ \E n \in CpuCounts :
          odp_global_data = [num_cpus_installed |-> n, system_info |-> ZeroInfo]
    /\ pc = "start"
    /\ step = 0
    /\ ret = 0
    /\ open_files = {}
    /\ last = NoCall

\* one step of init ends: on failure init returns -1, else it goes on at next
Advance(r, next) ==
    /\ odp_global_data' = [odp_global_data EXCEPT !.system_info = r.si]
    /\ IF r.ret # 0
       THEN pc' = "done" /\ ret' = -1
       ELSE pc' = next /\ ret' = ret

\* memset(&odp_global_data.system_info, 0, sizeof(system_info_t))
Memset ==
    /\ pc = "start"
    /\ odp_global_data' = [odp_global_data EXCEPT !.system_info = ZeroInfo]
    /\ pc' = "pagesize"
    /\ UNCHANGED <<cfg, env, step, ret, open_files, last>>

\* step 1: page size
PageSize(answers) ==
    /\ pc = "pagesize"
    /\ step' = 1
    /\ \E v \in (IF cfg.thunderx THEN answers ELSE {0}) :
          /\ env' = [env EXCEPT !.sc_pagesz = v]
          /\ Advance(init_page_size(cfg, odp_global_data.system_info, v),
                     IF cfg.thunderx THEN "hugedir" ELSE "cpuinfo")
    /\ UNCHANGED <<cfg, open_files, last>>

\* step 2 (HAVE_THUNDERX): huge page directory from /proc/mounts
HugePageDir(tables) ==
    /\ pc = "hugedir"
    /\ step' = 2
    /\ \E m \in tables :
          LET r == init_huge_page_dir(odp_global_data.system_info, m)
          IN  /\ env' = [env EXCEPT !.mounts = m]
              /\ open_files' = IF r.leak THEN open_files \cup {"mounts"} ELSE open_files
              /\ Advance(r, "cpuinfo")
    /\ UNCHANGED <<cfg, last>>

\* step 3: /proc/cpuinfo handed to the parser
CpuInfo(files) ==
    /\ pc = "cpuinfo"
    /\ step' = 3
    /\ \E f \in files :
          /\ env' = [env EXCEPT !.cpuinfo = f]
          /\ Advance(init_cpuinfo(odp_global_data.system_info, f), "cpucount")
    /\ UNCHANGED <<cfg, open_files, last>>

\* step 4: CPU count
CpuCount ==
    /\ pc = "cpucount"
    /\ step' = 4
    /\ Advance(systemcpu_count(odp_global_data, odp_global_data.system_info), "cacheline")
    /\ UNCHANGED <<cfg, env, open_files, last>>

\* step 5: cache line size
CacheLine(files) ==
    /\ pc = "cacheline"
    /\ step' = 5
    /\ \E f \in (IF cfg.sysfs THEN files ELSE {NoFile}) :
          /\ env' = [env EXCEPT !.cache_file = f]
          /\ Advance(systemcpu_cache(cfg, odp_global_data.system_info, f), "hugepagesize")
    /\ UNCHANGED <<cfg, open_files, last>>

\* step 6: default huge page size, then systemcpu() and init return 0.
\* Undefined behaviour (fgets and fclose on a NULL FILE) either kills the
\* process or passes as an immediate end of file.
HugePageSize(files) ==
    /\ pc = "hugepagesize"
    /\ step' = 6
    /\ \E f \in files :
          /\ env' = [env EXCEPT !.meminfo = f]
          /\ \E outcome \in (IF default_huge_page_size(f).ub
                             THEN {"killed", "end_of_file"} ELSE {"defined"}) :
                IF outcome = "killed"
                THEN /\ pc' = "crashed"
                     /\ UNCHANGED <<odp_global_data, ret>>
                ELSE /\ pc' = "done"
                     /\ ret' = 0
                     /\ odp_global_data' =
                           [odp_global_data EXCEPT
                               !.system_info = systemcpu_huge(odp_global_data.system_info, f)]
    /\ UNCHANGED <<cfg, open_files, last>>

\* a reader thread calls an accessor
Accessor ==
    /\ pc # "crashed"
    /\ \E t \in 1..NumReaders, c \in Calls(cfg) :
          \E r \in accessor_result(odp_global_data.system_info, c.fn, c.arg) :
             /\ last' = [tid |-> t, fn |-> c.fn, arg |-> c.arg,
                         ready |-> (pc = "done" /\ ret = 0),
                         ival |-> r.ival, sval |-> r.sval,
                         null |-> r.null, read |-> r.read]
             /\ odp_global_data' = accessor_store(odp_global_data, c.fn)
    /\ UNCHANGED <<cfg, env, pc, step, ret, open_files>>

Next ==
    \/ Memset
    \/ PageSize(SysPageSizes)
    \/ HugePageDir(MountTables)
    \/ CpuInfo(CpuInfoFiles)
    \/ CpuCount
    \/ CacheLine(CacheFiles)
    \/ HugePageSize(MeminfoFiles)
    \/ Accessor

Spec == Init /\ [][Next]_vars

----------------------------------------------------------------------------
(* huge_page_dir() over generated mount tables *)

MountWords == {"hugetlbfs", "/mnt", "/huge"}

FieldSeqs == UNION {[1..n -> MountWords] : n \in 0..MaxFields}

RECURSIVE Join(_)
Join(fs) ==
    IF fs = <<>> THEN <<>>
    ELSE IF Len(fs) = 1 THEN <<fs[1]>>
    ELSE <<fs[1], " ">> \o Join(Tail(fs))

\* fgets() gives every line with its "\n", except a last line that has none
FullLines == {Join(fs) \o <<"\n">> : fs \in FieldSeqs}
LastLines == FullLines \cup {Join(fs) : fs \in FieldSeqs \ {<<>>}}

RECURSIVE LineSeqs(_)
LineSeqs(n) ==
    IF n = 0 THEN {<<>>}
    ELSE {p \o <<l>> : p \in LineSeqs(n - 1), l \in FullLines}

\* fields separated by tabs, and by runs of blanks
TabbedLines ==
    {<<"none", "\t", "/mnt", "\t", "hugetlbfs", "\t", "rw", "\n">>,
     <<" ", "none", " ", " ", "/mnt", " ", " ", "hugetlbfs", " ", " ", "rw", "\n">>}

\* every mount table of at most n lines
AllMountTables(n) ==
    {NoFile, File(<<>>)}
    \cup {File(p \o <<l>>) : p \in UNION {LineSeqs(k) : k \in 0..(n - 1)},
                            l \in LastLines \cup TabbedLines}

InitMounts ==
    /\ Init
    /\ cfg.thunderx
    /\ ~cfg.sysfs
    /\ odp_global_data.num_cpus_installed = 1

NextMounts ==
    \/ Memset
    \/ PageSize({4096})
    \/ HugePageDir(AllMountTables(MaxLines))
    \/ CpuInfo({[present |-> TRUE, cores |-> 1]})
    \/ CpuCount
    \/ CacheLine({NoFile})
    \/ HugePageSize({File(<<HugeLine>>)})

SpecMounts == InitMounts /\ [][NextMounts]_vars

----------------------------------------------------------------------------
(* Properties *)

system_info == odp_global_data.system_info

InitSucceeded == pc = "done" /\ ret = 0
InitFailed == pc = "done" /\ ret = -1

\* bootstrap cached a count of at least one CPU
ValidCount == odp_global_data.num_cpus_installed >= 1

\* the value the cache-line probe produced (meaningful once step >= 5)
ProbedCacheLine == systemcpu_cache_line_size(cfg, env.cache_file)

\* C1: once init has returned success, odp_sys_cache_line_size() gives
\* ODP_CACHE_LINE_SIZE; and once the cache-line step has run with a probed
\* value other than ODP_CACHE_LINE_SIZE, init has returned failure.
C1_CacheLineChecked ==
    /\ InitSucceeded =>
          \A r \in odp_sys_cache_line_size(system_info) :
             r.ival = cfg.ODP_CACHE_LINE_SIZE
    /\ (step >= 5 /\ ProbedCacheLine # cfg.ODP_CACHE_LINE_SIZE) => InitFailed

\* 128 probed against 64 compiled: init has failed at the cache-line step
C1_Witness ==
    /\ step = 5
    /\ InitFailed
    /\ ProbedCacheLine = 128
    /\ cfg.ODP_CACHE_LINE_SIZE = 64

\* C2: in every state the stored cache_line_size is 0 or
\* ODP_CACHE_LINE_SIZE, and odp_sys_cache_line_size() never returned
\* anything else.  (Stated for a valid cached CPU count, so that a violation
\* owes nothing to a negative count.)
C2_NeverMismatched ==
    ValidCount =>
       /\ system_info.cache_line_size \in {0, cfg.ODP_CACHE_LINE_SIZE}
       /\ last.fn = "odp_sys_cache_line_size" =>
             last.ival \in {0, cfg.ODP_CACHE_LINE_SIZE}

\* C3: a call of odp_cpu_hz_max_id / odp_cpu_model_str_id with an id outside
\* [0, MAX_CPU_NUMBER) returns 0 / NULL without indexing the arrays; with an
\* id inside the range it returns the array element stored at that index.
C3_IdRange ==
    [][(last' # last /\ last'.fn \in IdFns) =>
          IF last'.arg \in CpuIndex
          THEN /\ last'.read
               /\ ~last'.null
               /\ last'.fn = "odp_cpu_hz_max_id" =>
                     last'.ival = system_info.cpu_hz_max[last'.arg]
               /\ last'.fn = "odp_cpu_model_str_id" =>
                     last'.sval = system_info.model_str[last'.arg]
          ELSE /\ ~last'.read
               /\ last'.fn = "odp_cpu_hz_max_id" => (last'.ival = 0 /\ ~last'.null)
               /\ last'.fn = "odp_cpu_model_str_id" => last'.null
      ]_vars

\* odp_cpu_model_str_id() has been called with a negative id while the
\* model strings are populated, and returned NULL without indexing
C3_Witness ==
    /\ last.fn = "odp_cpu_model_str_id"
    /\ last.arg < 0
    /\ last.null
    /\ ~last.read
    /\ system_info.model_str[0] # <<>>

\* whitespace-separated fields of a mount-table line
Fields(line) == Split(line, 1, <<>>, Blank)
IsHugeMount(line) == Len(Fields(line)) >= 3 /\ Fields(line)[3] = hugefs
IsShort(line) == Len(Fields(line)) < 3

\* C4: once the huge-page-directory step has run on a mount table: if a line
\* has hugetlbfs as its third field and no earlier line has fewer than three
\* fields, huge_page_dir is the second field of the first such line; if no
\* line has hugetlbfs as its third field, init has failed; if a line with
\* fewer than three fields comes before any match, init has failed.
C4_MountScan ==
    (cfg.thunderx /\ step >= 2 /\ env.mounts.present) =>
       LET lines == env.mounts.lines
           huge  == {k \in 1..Len(lines) : IsHugeMount(lines[k])}
           short == {k \in 1..Len(lines) : IsShort(lines[k])}
       IN  /\ \A k \in huge :
                 ((\A j \in huge : k <= j) /\ (\A j \in short : k < j)) =>
                    system_info.huge_page_dir = Fields(lines[k])[2]
           /\ huge = {} => InitFailed
           /\ (\E k \in short : \A j \in huge : k < j) => InitFailed

\* no line of a memory-information source matches "Hugepagesize: <n>"
NoHugepagesizeLine(f) ==
    \A k \in 1..Len(f.lines) : sscanf_hugepagesize(f.lines[k]).n # 1

\* C5: once steps 1-5 have succeeded and step 6 has run, init has returned
\* success, whatever the memory-information source was; and if the source
\* had no matching line, odp_sys_huge_page_size() gives 0.  (Stated for a
\* valid cached CPU count.)
C5_StepSixNeverBlocks ==
    (ValidCount /\ step = 6 /\ pc # "hugepagesize") =>
       /\ InitSucceeded
       /\ NoHugepagesizeLine(env.meminfo) =>
             \A r \in odp_sys_huge_page_size(system_info) : r.ival = 0

\* C6: after init has returned success no step changes odp_global_data, and
\* a call that repeats the previous call (same accessor, same argument, by
\* any thread) returns what the previous call returned.
C6_ReadOnlyStable ==
    [][InitSucceeded =>
          /\ odp_global_data' = odp_global_data
          /\ (last.ready /\ last'.fn = last.fn /\ last'.arg = last.arg) =>
                /\ last'.ival = last.ival
                /\ last'.sval = last.sval
                /\ last'.null = last.null
      ]_vars

\* after a successful init the second reader has read the frequency of CPU 0
C6_Witness ==
    /\ InitSucceeded
    /\ last.ready
    /\ last.tid = NumReaders
    /\ last.fn = "odp_cpu_hz_max_id"
    /\ last.arg = 0
    /\ last.ival = 1000

\* C7: once init has returned success odp_cpu_count() is at least 1, for
\* every cached num_cpus_installed; and a cached count of 0 makes init fail.
C7_CpuCountPositive ==
    /\ InitSucceeded => \A r \in odp_cpu_count(system_info) : r.ival >= 1
    /\ (step >= 4 /\ odp_global_data.num_cpus_installed = 0) => InitFailed

\* the fixed default of the cache-line step: 64, or the platform override
CacheLineDefault(c) == IF c.thunderx THEN c.ODP_CACHE_LINE_SIZE ELSE DefaultCacheLine

\* C8 as stated: on a sysfs architecture, when the coherency_line_size file
\* is absent and the default equals ODP_CACHE_LINE_SIZE, the cache-line step
\* does not fail: it stores the default.  (Stated for a valid cached CPU
\* count.)
C8_AbsentFileFallsBack ==
    (/\ ValidCount
     /\ cfg.sysfs
     /\ step >= 5
     /\ ~env.cache_file.present
     /\ CacheLineDefault(cfg) = cfg.ODP_CACHE_LINE_SIZE) =>
       /\ ~InitFailed
       /\ system_info.cache_line_size = CacheLineDefault(cfg)

\* C8 amended: on a sysfs architecture, when the coherency_line_size file is
\* absent the probe gives 0, which is fatal: init has returned failure at the
\* cache-line step and cache_line_size is still 0.
C8_AbsentFileFatal ==
    (cfg.sysfs /\ step >= 5 /\ ~env.cache_file.present) =>
       /\ InitFailed
       /\ step = 5
       /\ system_info.cache_line_size = 0

\* the file is absent on a build whose default matches ODP_CACHE_LINE_SIZE
C8_Witness ==
    /\ cfg.sysfs
    /\ step = 5
    /\ pc = "done"
    /\ ~env.cache_file.present
    /\ CacheLineDefault(cfg) = cfg.ODP_CACHE_LINE_SIZE

\* the fields a step of init owns are still zero
StepFieldsZero(si, k) ==
    CASE k = 1 -> si.page_size = 0
      [] k = 2 -> si.huge_page_dir = <<>>
      [] k = 3 -> si.cpu_hz_max = ZeroInfo.cpu_hz_max /\ si.model_str = ZeroInfo.model_str
      [] k = 4 -> si.cpu_count = 0
      [] k = 5 -> si.cache_line_size = 0
      [] k = 6 -> si.default_huge_page_size = 0

\* C9: init zeroes the record first and enters its steps in the order 1..6
\* (step 2 only under HAVE_THUNDERX); once it has returned it enters no
\* further step; and when it returns failure every field owned by a step
\* after the failing one is zero.
C9_OrderAndAbort ==
    [][/\ (pc = "start" /\ pc' # "start") =>
             odp_global_data'.system_info = ZeroInfo
       /\ step' # step =>
             \/ step' = step + 1 /\ (step' = 2 => cfg.thunderx)
             \/ step' = step + 2 /\ step = 1 /\ ~cfg.thunderx
       /\ pc \in {"done", "crashed"} => (step' = step /\ pc' = pc /\ ret' = ret)
       /\ (pc' = "done" /\ ret' = -1) =>
             \A k \in (step' + 1)..6 :
                StepFieldsZero(odp_global_data'.system_info, k)
      ]_vars

\* the CPU count probe failed after the earlier steps had written their fields
C9_Witness ==
    /\ InitFailed
    /\ step = 4
    /\ odp_global_data.num_cpus_installed = 0
    /\ system_info.page_size # 0
    /\ system_info.cpu_hz_max[0] # 0
    /\ system_info.cache_line_size = 0
    /\ system_info.default_huge_page_size = 0

\* C10: once init has returned, no FILE handle it opened is still open.
C10_NoOpenHandle ==
    pc = "done" => open_files = {}

====
